---- MODULE Spec2Model ----
(***************************************************************************)
(* Model of sandbox.scheduler.Scheduler (src/sandbox/scheduler.py): the    *)
(* tick loop, the itertools.cycle rotation cursor, the population cap,     *)
(* the persistence cadence and shutdown.                                   *)
(*                                                                         *)
(* Agents are natural numbers (their unique names); an agent sequence is a *)
(* TLA+ sequence, so Python position p is TLA+ index p + 1.  Each action   *)
(* is the stretch of code the single scheduler task runs between two       *)
(* awaits; every collaborator call may succeed or raise.                   *)
(***************************************************************************)
EXTENDS Integers, Sequences, FiniteSets, TLC

\* ------------------------------------------------------------------ bounds
MaxCap       == 3   \* MAX_AGENTS ranges over 0..MaxCap
MaxSaveEvery == 2   \* SAVE_EVERY ranges over 0..MaxSaveEvery
MaxT0        == 1   \* the loaded world's tick ranges over 0..MaxT0
MaxInit      == 3   \* length of the agent list handed to the constructor
MaxBreed     == 2   \* agents the breeder may append in one step
MaxBorn      == 2   \* agents the breeder may append in one run
MaxBudget    == 3   \* max_ticks ranges over None and 0..MaxBudget
MaxTicks     == 4   \* run_tick calls explored in one run
MaxTasks     == 2   \* tasks of the event loop besides the one running loop

VARIABLES
    MAX_AGENTS,    \* scheduler.py:20, read once at import
    SAVE_EVERY,    \* scheduler.py:21, read once at import
    world_tick,    \* self.world.tick
    world_agents,  \* self.world.agents: agent name -> record
    agents,        \* self.agents
    cursor,        \* self._cursor, an itertools.cycle over self.agents
    ctx,           \* the messages handed to self.ctx.add, in order
    log,           \* entries handed to self.logger.write, in order
    saves,         \* world ticks at which world.save was called, in order
    snapshot,      \* the world the last world.save call was given, or <<>>
    closed,        \* number of self.logger.close calls
    pc,            \* position of the task running loop
    actor,         \* run_tick's local `agent`
    msg,           \* run_tick's local `msg`
    max_ticks,     \* loop's argument: <<>> is None, <<n>> is n
    count,         \* loop's local `count`
    failed_at,     \* the step whose exception left loop, or "none"
    next_id,       \* name the breeder gives its next agent
    tasks,         \* asyncio.all_tasks(): task -> "pending", "cancelling"
                   \* (cancel requested, not done) or "done"
    \* history of the run, read by the properties only
    t0,            \* world tick at construction
    init_agents,   \* agent list at construction
    picks,         \* the agents next(self._cursor) returned, in order
    calls,         \* run_tick calls started
    completed,     \* run_tick calls returned
    pre_cap,       \* self.agents as the last _enforce_agent_cap call found it
    last_dropped,  \* `dropped` of the last _enforce_agent_cap call
    dropped_at,    \* dropped agent -> number of selections made by then
    grow_mark,     \* the last tick that bred without a drop, while the
                   \* sequence it left stands: [at, actor, seq, new], or <<>>
    other_ran_at   \* pc of the loop task when another task last ran

vars == <<MAX_AGENTS, SAVE_EVERY, world_tick, world_agents, agents, cursor,
          ctx, log, saves, snapshot, closed, pc, actor, msg, max_ticks, count,
          failed_at, next_id, t0, init_agents, picks, calls, completed, pre_cap,
          last_dropped, dropped_at, grow_mark,
                   tasks, other_ran_at>>

\* ------------------------------------------------------------ python lists
SYSTEM == 0          \* speaker of the verb-catalogue entry
NoAgent == 0         \* `agent` before the first selection

Range(s) == {s[i] : i \in 1..Len(s)}

Min(a, b) == IF a <= b THEN a ELSE b
Max(a, b) == IF a >= b THEN a ELSE b

\* Python's clamping of a slice bound b against a list of length n.
PyBound(b, n) == IF b < 0 THEN Max(n + b, 0) ELSE Min(b, n)

\* list[start:stop] (0-based, stop exclusive).
PySlice(list, start, stop) ==
    LET lo == PyBound(start, Len(list))
        hi == PyBound(stop, Len(list))
    IN  IF hi <= lo THEN <<>> ELSE [i \in 1..(hi - lo) |-> list[lo + i]]

\* list[start:]
PySliceFrom(list, start) == PySlice(list, start, Len(list))

\* list.index(a): the first 0-based position of a, -1 standing for ValueError.
Index(list, a) ==
    IF a \in Range(list)
    THEN (CHOOSE i \in 1..Len(list) :
             list[i] = a /\ \A j \in 1..(i - 1) : list[j] # a) - 1
    ELSE -1

\* -------------------------------------------------------- itertools.cycle
\* cycle(iterable): a first pass over the live list, saving what it yields,
\* then an endless replay of the saved items.
Cycle == [it |-> 0, first |-> TRUE, saved |-> <<>>, index |-> 0]

\* next(c) with c built over `list`: [ok, item, cur]; ok = FALSE is StopIteration.
CycleNext(c, list) ==
    IF c.first /\ c.it < Len(list)
    THEN [ok |-> TRUE, item |-> list[c.it + 1],
          cur |-> [c EXCEPT !.it = c.it + 1,
                            !.saved = Append(c.saved, list[c.it + 1])]]
    ELSE IF Len(c.saved) = 0
    THEN [ok |-> FALSE, item |-> NoAgent, cur |-> [c EXCEPT !.first = FALSE]]
    ELSE [ok |-> TRUE, item |-> c.saved[c.index + 1],
          cur |-> [c EXCEPT !.first = FALSE,
                            !.index = (c.index + 1) % Len(c.saved)]]

\* for _ in range(n): next(c)
RECURSIVE CycleAdvance(_, _, _)
CycleAdvance(c, list, n) ==
    IF n <= 0 THEN c ELSE CycleAdvance(CycleNext(c, list).cur, list, n - 1)

\* ------------------------------------------------------------- Scheduler
\* What think may answer: plain talk, or a line starting with "WORLD:".
Contents == {"talk", "WORLD"}

Message(name, content) == [name |-> name, content |-> content]

NoMessage == Message(NoAgent, "none")

\* A log entry whose tick is the tick after the increment.
LogEntryAfterBump(tick, speaker, content) ==
    [tick |-> tick + 1, speaker |-> speaker, content |-> content]

\* lines 41-46 and 82-87: the entry handed to logger.write (its time left out).
LogEntry(tick, speaker, content) ==
    [tick |-> tick, speaker |-> speaker, content |-> content]

\* An upsert that stores an empty record whether or not one is there.
UpsertOverwrites(reg, name) ==
    [a \in DOMAIN reg \cup {name} |-> IF a = name THEN "empty" ELSE reg[a]]

\* line 69: self.world.agents.setdefault(agent.name, {})
Upsert(reg, name) ==
    [a \in DOMAIN reg \cup {name} |-> IF a \in DOMAIN reg THEN reg[a] ELSE "empty"]

\* line 76: exec_cmds(world, bus, name, content) as the spec describes the
\* command executor: a WORLD directive writes the speaker's record, other
\* content leaves the world alone.
Execute(reg, name, content) ==
    IF content = "WORLD"
    THEN [a \in DOMAIN reg \cup {name} |-> IF a = name THEN "data" ELSE reg[a]]
    ELSE reg

\* The catalogue written whatever the world's tick is.
InitialLogAlways(tick) == <<LogEntry(0, SYSTEM, "catalogue")>>

\* __init__, lines 39-48: the verb catalogue is logged when world.tick == 0.
InitialLog(tick) == IF tick = 0 THEN <<LogEntry(0, SYSTEM, "catalogue")>> ELSE <<>>

\* line 55: keep = self.agents[:2] + self.agents[-(MAX_AGENTS-2):]
Keep(list, cap) == PySlice(list, 0, 2) \o PySliceFrom(list, -(cap - 2))

\* The cap enforced without line 57's assignment: nobody leaves the list.
EnforceAgentCapKeepsAll(list, cap) == list

\* _enforce_agent_cap, lines 51-57: the value of self.agents when it returns.
EnforceAgentCap(list, cap) == IF Len(list) <= cap THEN list ELSE Keep(list, cap)

\* line 56: dropped = {a.name for a in self.agents if a not in keep}
Dropped(list, cap) ==
    IF Len(list) <= cap THEN {} ELSE Range(list) \ Range(Keep(list, cap))

\* A snapshot taken before the tick's increment.
SnapshotBeforeBump(tick, reg) == [tick |-> tick - 1, agents |-> reg]

\* line 92: self.world.save("world.json") writes the world as it is then.
Snapshot(tick, reg) == [tick |-> tick, agents |-> reg]

\* line 94: breeder.step() as the spec describes the breeding manager: it
\* appends n new agents, named id, id + 1, ..., to the agent list.
Bred(list, n, id) == list \o [i \in 1..n |-> id + i - 1]

\* The tick bumped twice in one run_tick.
NextTickTwice(tick) == tick + 2

\* line 90: self.world.tick += 1
NextTick(tick) == tick + 1

\* The cadence tested on the tick before its increment.
ShouldSaveBeforeBump(tick, every) == (tick - 1) % every = 0

\* line 91: self.world.tick % SAVE_EVERY == 0 (SAVE_EVERY # 0)
ShouldSave(tick, every) == tick % every = 0

\* The new cycle left at its start (lines 100-101 missing).
RebuiltCursorFromStart(list, a) == Cycle

\* The new cycle advanced index(agent) times only.
RebuiltCursorOffByOne(list, a) == CycleAdvance(Cycle, list, Index(list, a))

\* lines 98-101: a new cycle, advanced index(agent) + 1 times.
RebuiltCursor(list, a) == CycleAdvance(Cycle, list, Index(list, a) + 1)

\* count > max_ticks in place of count >= max_ticks.
BudgetExhaustedLate(m, c) == m # <<>> /\ m[1] # 0 /\ c > m[1]

\* max_ticks is not None in place of the truth test of max_ticks.
BudgetExhaustedZero(m, c) == m # <<>> /\ c >= m[1]

\* line 109: max_ticks and count >= max_ticks
BudgetExhausted(m, c) == m # <<>> /\ m[1] # 0 /\ c >= m[1]

\* A loop that swallows the exception and goes on to the next tick.
AfterRaiseRetry == "tick_start"

\* loop, lines 106-107: run_tick is awaited with no try/except around it, so
\* an exception ends the task that runs loop.
AfterRaise == "raised"

Raise(step) == pc' = AfterRaise /\ failed_at' = step

\* The task that runs loop: asyncio.current_task() at line 115.
LoopTask == 0

\* Every task that is not done is cancelled, the current one too.
CancelAll(ts, current) ==
    [t \in DOMAIN ts |-> IF ts[t] # "done" THEN "cancelling" ELSE ts[t]]

\* lines 115-118: t.cancel() for every task that is not current and not done.
CancelDangling(ts, current) ==
    [t \in DOMAIN ts |->
        IF t # current /\ ts[t] # "done" THEN "cancelling" ELSE ts[t]]

\* An await at the top of the loop body as well.
AwaitPointsAndLoopTop == {"tick_start", "think", "rollup", "breed"}

\* lines 66, 73 and 94: run_tick's awaits (think, ctx.rollup, breeder.step).
AwaitPoints == {"think", "rollup", "breed"}

\* The agent lists a constructor call is given: names 1..k, in order.
InitialAgents == {[i \in 1..k |-> i] : k \in 0..MaxInit}

Budgets == {<<>>} \cup {<<n>> : n \in 0..MaxBudget}

Born == next_id - 1 - Len(init_agents)

Init ==
    /\ MAX_AGENTS \in 0..MaxCap
    /\ SAVE_EVERY \in 0..MaxSaveEvery
    /\ t0 \in 0..MaxT0
    /\ init_agents \in InitialAgents
    /\ world_tick = t0
    /\ world_agents = <<>>
    /\ agents = init_agents
    /\ cursor = Cycle
    /\ ctx = <<>>
    /\ log = InitialLog(t0)
    /\ saves = <<>>
    /\ snapshot = <<>>
    /\ closed = 0
    /\ pc = "new"
    /\ actor = NoAgent
    /\ msg = NoMessage
    /\ max_ticks = <<>>
    /\ count = 0
    /\ failed_at = "none"
    /\ next_id = Len(init_agents) + 1
    /\ picks = <<>>
    /\ calls = 0
    /\ completed = 0
    /\ pre_cap = <<>>
    /\ last_dropped = {}
    /\ dropped_at = <<>>
    /\ grow_mark = <<>>
    /\ tasks = [t \in {LoopTask} |-> "pending"]
    /\ other_ran_at = "none"

\* loop(max_ticks), lines 104-105.
LoopCall ==
    /\ pc = "new"
    /\ \E m \in Budgets : max_ticks' = m
    /\ count' = 0
    /\ pc' = "tick_start"
    /\ UNCHANGED <<MAX_AGENTS, SAVE_EVERY, world_tick, world_agents, agents,
                   cursor, ctx, log, saves, snapshot, closed, actor, msg, failed_at,
                   next_id,
                   t0, init_agents, picks, calls, completed, pre_cap,
                   last_dropped, dropped_at, grow_mark,
                   tasks, other_ran_at>>

\* run_tick, lines 62-66: select the agent and call think.
Select ==
    /\ pc = "tick_start"
    /\ calls < MaxTicks
    /\ calls' = calls + 1
    /\ LET r == CycleNext(cursor, agents) IN
          /\ cursor' = r.cur
          /\ IF r.ok
             THEN /\ actor' = r.item
                  /\ picks' = Append(picks, r.item)
                  /\ pc' = "think"
                  /\ UNCHANGED failed_at
             ELSE /\ Raise("next")
                  /\ UNCHANGED <<actor, picks>>
    /\ UNCHANGED <<MAX_AGENTS, SAVE_EVERY, world_tick, world_agents, agents,
                   ctx, log, saves, snapshot, msg, closed, max_ticks, count, next_id, t0,
                   init_agents, completed, pre_cap, last_dropped, dropped_at, grow_mark,
                   tasks, other_ran_at>>

\* run_tick, lines 66-73: think returns, registry upsert, ctx.add, call rollup.
ThinkReturns ==
    /\ pc = "think"
    /\ \E f \in {"ok", "think", "add"}, c \in Contents :
          IF f = "think"
          THEN /\ Raise("think")
               /\ UNCHANGED <<world_agents, ctx, msg>>
          ELSE /\ msg' = Message(actor, c)
               /\ world_agents' = Upsert(world_agents, actor)
               /\ IF f = "add"
                  THEN Raise("add") /\ UNCHANGED ctx
                  ELSE /\ ctx' = Append(ctx, msg')
                       /\ pc' = "rollup"
                       /\ UNCHANGED failed_at
    /\ UNCHANGED <<MAX_AGENTS, SAVE_EVERY, world_tick, agents, cursor, log,
                   saves, snapshot, closed, actor, max_ticks, count, next_id, t0,
                   init_agents, picks, calls, completed, pre_cap,
                   last_dropped, dropped_at, grow_mark,
                   tasks, other_ran_at>>

\* run_tick, lines 73-94: rollup returns, commands, log entry, tick bump,
\* conditional save, call breeder.step.
RollupReturns ==
    /\ pc = "rollup"
    /\ \E f \in {"ok", "rollup", "exec", "write", "save"} :
          IF f \in {"rollup", "exec"}
          THEN /\ Raise(f)
               /\ UNCHANGED <<world_agents, log, world_tick, saves, snapshot>>
          ELSE IF f = "write"
          THEN /\ world_agents' = Execute(world_agents, msg.name, msg.content)
               /\ Raise(f)
               /\ UNCHANGED <<log, world_tick, saves, snapshot>>
          ELSE /\ world_agents' = Execute(world_agents, msg.name, msg.content)
               /\ log' = Append(log, LogEntry(world_tick, msg.name, msg.content))
               /\ world_tick' = NextTick(world_tick)
               /\ IF SAVE_EVERY = 0
                  THEN Raise("zerodiv") /\ UNCHANGED <<saves, snapshot>>
                  ELSE IF ShouldSave(world_tick', SAVE_EVERY)
                  THEN /\ saves' = Append(saves, world_tick')
                       /\ snapshot' = Snapshot(world_tick', world_agents')
                       /\ IF f = "save"
                          THEN Raise("save")
                          ELSE pc' = "breed" /\ UNCHANGED failed_at
                  ELSE /\ f = "ok"
                       /\ pc' = "breed"
                       /\ UNCHANGED <<saves, snapshot, failed_at>>
    /\ UNCHANGED <<MAX_AGENTS, SAVE_EVERY, agents, cursor, ctx,
                   closed, actor, msg, max_ticks, count, next_id, t0, init_agents,
                   picks, calls, completed, pre_cap, last_dropped, dropped_at, grow_mark,
                   tasks, other_ran_at>>

\* run_tick, lines 94-101, and loop, lines 108-110: breeder.step returns,
\* cap enforcement, cursor rebuild, then the budget test.
BreedReturns ==
    /\ pc = "breed"
    /\ \E f \in {"ok", "breed"}, n \in 0..MaxBreed :
          /\ Born + n <= MaxBorn
          /\ next_id' = next_id + n
          /\ LET bred == Bred(agents, n, next_id) IN
             IF f = "breed"
             THEN /\ agents' = bred
                  /\ Raise("breed")
                  /\ UNCHANGED <<cursor, pre_cap, last_dropped, dropped_at,
                                 grow_mark, completed, count>>
             ELSE /\ pre_cap' = bred
                  /\ last_dropped' = Dropped(bred, MAX_AGENTS)
                  /\ dropped_at' =
                        [a \in DOMAIN dropped_at \cup last_dropped' |->
                            IF a \in DOMAIN dropped_at THEN dropped_at[a]
                            ELSE Len(picks)]
                  /\ agents' = EnforceAgentCap(bred, MAX_AGENTS)
                  /\ IF Index(agents', actor) = -1
                     THEN /\ cursor' = Cycle
                          /\ Raise("index")
                          /\ UNCHANGED <<completed, count, grow_mark>>
                     ELSE /\ cursor' = RebuiltCursor(agents', actor)
                          /\ grow_mark' =
                                IF n > 0 /\ last_dropped' = {}
                                THEN [at |-> Len(picks), actor |-> actor,
                                      seq |-> agents',
                                      new |-> next_id..(next_id + n - 1)]
                                ELSE IF agents' = agents THEN grow_mark
                                ELSE <<>>
                          /\ completed' = completed + 1
                          /\ count' = count + 1
                          /\ pc' = IF BudgetExhausted(max_ticks, count')
                                   THEN "closing" ELSE "tick_start"
                          /\ UNCHANGED failed_at
    /\ UNCHANGED <<MAX_AGENTS, SAVE_EVERY, world_tick, world_agents, ctx, log,
                   saves, snapshot, closed, actor, msg, max_ticks, t0,
                   init_agents, picks, calls, tasks, other_ran_at>>

\* loop, lines 111-120: self.logger.close(), then cancel what is left.
Close ==
    /\ pc = "closing"
    /\ closed' = closed + 1
    /\ \E f \in {"ok", "close"} :
          IF f = "close"
          THEN Raise("close") /\ UNCHANGED tasks
          ELSE /\ tasks' = CancelDangling(tasks, LoopTask)
               /\ pc' = "done"
               /\ UNCHANGED failed_at
    /\ UNCHANGED <<MAX_AGENTS, SAVE_EVERY, world_tick, world_agents, agents,
                   cursor, ctx, log, saves, snapshot, actor, msg, max_ticks,
                   count,
                   next_id, t0, init_agents, picks, calls, completed, pre_cap,
                   last_dropped, dropped_at, grow_mark, other_ran_at>>

Next == LoopCall \/ Select \/ ThinkReturns \/ RollupReturns \/ BreedReturns
           \/ Close

Spec == Init /\ [][Next]_vars

\* ------------------------------------------------- other tasks of the loop
\* The task running loop gives up the event loop at an await only, so
\* another task runs while loop waits there, or before loop is called.
OtherTaskCanRun == pc = "new" \/ pc \in AwaitPoints

scheduler_vars == <<MAX_AGENTS, SAVE_EVERY, world_tick, world_agents, agents,
                    cursor, ctx, log, saves, snapshot, closed, pc, actor, msg,
                    max_ticks, count, failed_at, next_id, t0, init_agents,
                    picks, calls, completed, pre_cap, last_dropped,
                    dropped_at, grow_mark>>

\* Some code that runs creates a task (asyncio.create_task).
TaskSpawn ==
    /\ OtherTaskCanRun
    /\ Cardinality(DOMAIN tasks) - 1 < MaxTasks
    /\ tasks' = [t \in DOMAIN tasks \cup {Cardinality(DOMAIN tasks)} |->
                    IF t \in DOMAIN tasks THEN tasks[t] ELSE "pending"]
    /\ other_ran_at' = pc
    /\ UNCHANGED scheduler_vars

\* A task other than the one running loop runs to its end.
TaskFinish ==
    /\ OtherTaskCanRun
    /\ \E t \in DOMAIN tasks \ {LoopTask} :
          /\ tasks[t] = "pending"
          /\ tasks' = [tasks EXCEPT ![t] = "done"]
    /\ other_ran_at' = pc
    /\ UNCHANGED scheduler_vars

\* build_default_scheduler, lines 126-142: two agents; the largest cap and
\* save interval of the model.
InitDefault ==
    /\ Init
    /\ Len(init_agents) = 2
    /\ MAX_AGENTS = MaxCap
    /\ SAVE_EVERY = MaxSaveEvery

NextTasks == Next \/ TaskSpawn \/ TaskFinish

SpecTasks == InitDefault /\ [][NextTasks]_vars

\* ---------------------------------------------------------------- claims
\* run_tick has returned and the next one has not started.
BetweenTicks == pc \in {"new", "tick_start", "closing", "done"}

\* The log entries run_tick wrote.
AgentEntries == SelectSeq(log, LAMBDA e : e.speaker # SYSTEM)

Occurrences(s, a) == Cardinality({i \in 1..Len(s) : s[i] = a})

\* C1: after n completed run_tick calls the world tick is t0 + n; inside a
\* tick it is that value or, once the increment ran, one more.
C1_TickCounts ==
    /\ BetweenTicks => world_tick = t0 + completed
    /\ world_tick - (t0 + completed) \in {0, 1}

C1_Witness ==
    /\ pc = "tick_start" /\ completed >= 3 /\ t0 = 1
    /\ last_dropped # {} /\ saves # <<>> /\ Born > 0

\* C2: with a fixed agent list of size k <= MAX_AGENTS and no breeding, the
\* i-th selection (from 0) is the agent at position i mod k, and after N
\* selections every agent was selected floor(N/k) or ceil(N/k) times.
C2_StrictRotation ==
    (Born = 0 /\ Len(init_agents) <= MAX_AGENTS) =>
        LET k == Len(init_agents)
            N == Len(picks)
        IN  /\ \A i \in 1..N : picks[i] = init_agents[((i - 1) % k) + 1]
            /\ \A a \in Range(init_agents) :
                  Occurrences(picks, a) \in
                      {N \div k, (N \div k) + (IF N % k = 0 THEN 0 ELSE 1)}

C2_Witness ==
    /\ Born = 0 /\ Len(init_agents) = 3 /\ MAX_AGENTS >= 3
    /\ picks = <<1, 2, 3, 1>> /\ completed = 4

\* The sequence C3 describes: the first two agents of `list`, then its last
\* cap - 2 agents.
FoundersAndNewest(list, cap) ==
    [i \in 1..cap |-> IF i <= 2 THEN list[i] ELSE list[Len(list) - cap + i]]

\* self.agents is what the last _enforce_agent_cap call left.
CapJustEnforced == pre_cap # <<>> /\ failed_at # "breed"

\* C3: for every cap >= 2, enforcing the cap on a longer sequence leaves
\* exactly MAX_AGENTS agents: the first two, then the last MAX_AGENTS - 2.
C3_CapKeepsFoundersAndNewest ==
    (CapJustEnforced /\ MAX_AGENTS >= 2 /\ Len(pre_cap) > MAX_AGENTS) =>
        /\ Len(agents) = MAX_AGENTS
        /\ agents = FoundersAndNewest(pre_cap, MAX_AGENTS)

\* C4: when run_tick returns, the agent sequence holds at most MAX_AGENTS
\* agents (stated for the caps that leave room for the two founders).
C4_PopulationWithinCap ==
    (BetweenTicks /\ completed >= 1 /\ MAX_AGENTS >= 2) =>
        Len(agents) <= MAX_AGENTS

\* C5: after a tick whose cap enforcement dropped an agent, the next
\* selection is the slot after the agent that acted, in the new sequence.
C5_CursorResumesAfterActor ==
    (last_dropped # {} /\ (BetweenTicks \/ failed_at = "index")) =>
        /\ actor \in Range(agents)
        /\ CycleNext(cursor, agents).ok
        /\ CycleNext(cursor, agents).item =
               agents[((Index(agents, actor) + 1) % Len(agents)) + 1]

\* C6: world.save was called at exactly the ticks in t0+1 .. world.tick that
\* are multiples of SAVE_EVERY, once each, in order: never at construction,
\* never on another tick, never at shutdown.
C6_SavesOnMultiples ==
    saves = SelectSeq([i \in 1..(world_tick - t0) |-> t0 + i],
                      LAMBDA t : SAVE_EVERY # 0 /\ t % SAVE_EVERY = 0)

C6_Witness ==
    /\ pc = "done" /\ SAVE_EVERY = 2 /\ t0 = 0
    /\ world_tick = 3 /\ saves = <<2>>

\* C7: loop(max_ticks = n), n >= 1: run_tick is called at most n times, one
\* at a time; logger.close is called only after the n-th call returned, and
\* exactly once by the time loop is done.
C7_BudgetedLoop ==
    (pc # "new" /\ max_ticks # <<>> /\ max_ticks[1] >= 1) =>
        LET n == max_ticks[1] IN
        /\ calls <= n
        /\ calls - completed \in {0, 1}
        /\ closed <= 1
        /\ (closed >= 1 \/ pc \in {"closing", "done"}) =>
               (completed = n /\ calls = n)
        /\ (completed = n /\ failed_at = "none") => pc \in {"closing", "done"}
        /\ pc = "done" => closed = 1

C7_Witness ==
    pc = "done" /\ max_ticks = <<3>> /\ completed = 3 /\ closed = 1

\* C8: loop with max_ticks None or 0 never reaches logger.close: unless a
\* step raised, it is in a tick or about to start the next one.
C8_UnboundedLoop ==
    (pc # "new" /\ (max_ticks = <<>> \/ max_ticks = <<0>>)) =>
        /\ pc \notin {"closing", "done"}
        /\ closed = 0
        /\ failed_at = "none" => pc \in {"tick_start", "think", "rollup", "breed"}

C8_Witness ==
    max_ticks = <<0>> /\ pc = "tick_start" /\ completed >= 3

\* C9: the log holds exactly one SYSTEM entry, with tick 0, when the world
\* started at tick 0, and none otherwise, at every point of a run.
C9_SystemEntry ==
    LET sys == {i \in 1..Len(log) : log[i].speaker = SYSTEM} IN
    IF t0 = 0 THEN sys = {1} /\ log[1].tick = 0 ELSE sys = {}

C9_Witness ==
    t0 = 0 /\ completed >= 2 /\ Len(log) >= 3 /\ world_tick # 0

CollaboratorSteps == {"think", "add", "rollup", "exec", "write", "save",
                      "breed", "close"}

\* C10: a collaborator failure ends the tick at that step and leaves loop:
\* no later step ran (no log entry and no increment when think, the context
\* update, the commands or the log write failed), what ran before is kept,
\* and no further run_tick is called.
C10_FailFast ==
    (failed_at \in CollaboratorSteps \ {"close"}) =>
        /\ pc = "raised"
        /\ calls = completed + 1 /\ count = completed /\ closed = 0
        /\ failed_at \in {"think", "add", "rollup", "exec", "write"} =>
              /\ world_tick = t0 + completed
              /\ Len(AgentEntries) = completed
              /\ \A i \in 1..Len(saves) : saves[i] <= t0 + completed
        /\ failed_at \in {"save", "breed"} =>
              /\ world_tick = t0 + completed + 1
              /\ Len(AgentEntries) = completed + 1
              /\ AgentEntries[completed + 1] =
                    LogEntry(world_tick - 1, actor, msg.content)
        /\ failed_at = "save" => saves[Len(saves)] = world_tick
        /\ failed_at = "think" => Len(ctx) = completed
        /\ failed_at = "add" => Len(ctx) = completed /\ actor \in DOMAIN world_agents
        /\ failed_at \in {"rollup", "exec", "write", "save", "breed"} =>
              /\ Len(ctx) = completed + 1 /\ ctx[completed + 1] = msg
              /\ actor \in DOMAIN world_agents

C10_Witness ==
    failed_at = "exec" /\ completed >= 1 /\ Len(ctx) = completed + 1

\* C11: whenever control has left loop, by budget exhaustion or by an
\* exception out of run_tick, logger.close has been called exactly once,
\* and it is not called while ticks are still run.
C11_ClosedOnEveryExit ==
    /\ (pc = "done" \/ failed_at \in CollaboratorSteps) => closed = 1
    /\ pc \in {"tick_start", "think", "rollup", "breed"} => closed = 0

\* C14: every completed run_tick wrote one log entry; the i-th agent entry
\* has tick t0 + i - 1, the world tick before that tick's increment, and the
\* speaker and content of the i-th message think returned.
C14_LogInTickOrder ==
    LET E == AgentEntries IN
    /\ Len(E) \in {completed, completed + 1}
    /\ BetweenTicks => Len(E) = completed
    /\ pc = "breed" => (Len(E) = completed + 1 /\ E[Len(E)].tick = world_tick - 1)
    /\ \A i \in 1..Len(E) :
          /\ E[i].tick = t0 + i - 1
          /\ ctx[i].name = picks[i]
          /\ E[i].speaker = ctx[i].name
          /\ E[i].content = ctx[i].content

C14_Witness ==
    /\ t0 = 1 /\ completed >= 3 /\ pc = "tick_start"
    /\ \E i, j \in 1..Len(AgentEntries) :
          /\ AgentEntries[i].content = "WORLD"
          /\ AgentEntries[j].content = "talk"

\* The agents that reached line 69, and those whose directive was executed.
Acted ==
    {ctx[i].name : i \in 1..Len(ctx)}
        \cup (IF failed_at = "add" THEN {actor} ELSE {})

Directed ==
    {AgentEntries[i].speaker :
        i \in {j \in 1..Len(AgentEntries) : AgentEntries[j].content = "WORLD"}}
        \cup (IF failed_at = "write" /\ msg.content = "WORLD"
              THEN {actor} ELSE {})

\* C15: the registry holds a record for exactly the agents that have acted;
\* the upsert adds an empty record when the name is absent and never
\* replaces or removes a record: what a directive wrote stays.
C15_RegistryUpsert ==
    /\ DOMAIN world_agents = Acted
    /\ \A a \in DOMAIN world_agents :
          world_agents[a] = IF a \in Directed THEN "data" ELSE "empty"

C15_Witness ==
    /\ \E i, j \in 1..Len(ctx) :
          /\ i < j /\ ctx[i].name = ctx[j].name /\ pc = "rollup"
          /\ ctx[i].content = "WORLD" /\ ctx[j].content = "talk"
          /\ world_agents[ctx[j].name] = "data"
    /\ \E a \in DOMAIN world_agents : world_agents[a] = "empty"

\* C16: cap eviction only takes agents out of rotation: a dropped agent that
\* had acted keeps its registry record, is no longer in the agent sequence
\* and is never selected again; the agent a tick selects is a member of the
\* sequence the previous tick left.
C16_EvictionOnlyLeavesRotation ==
    /\ \A a \in DOMAIN dropped_at :
          /\ a \notin Range(agents)
          /\ \A i \in (dropped_at[a] + 1)..Len(picks) : picks[i] # a
          /\ a \in Acted => a \in DOMAIN world_agents
    /\ pc = "think" => actor \in Range(agents)

C16_Witness ==
    \E a, b \in DOMAIN dropped_at :
        /\ Len(picks) >= dropped_at[a] + 2
        /\ b \in Acted /\ world_agents[b] = "data"

\* C17: after a tick that bred and dropped nobody, and while the sequence it
\* left stands, the selections walk that sequence from the slot after the
\* agent that acted: a full cycle selects every agent once, and every new
\* agent acts before that agent acts again.
C17_BredAgentsJoinTheCycle ==
    grow_mark # <<>> =>
        LET seq   == grow_mark.seq
            L     == Len(seq)
            base  == Index(seq, grow_mark.actor)
            later == SubSeq(picks, grow_mark.at + 1, Len(picks))
            m     == Min(Len(later), L)
        IN  /\ \A j \in 1..m : later[j] = seq[((base + j) % L) + 1]
            /\ Len(later) >= L =>
                  /\ {later[j] : j \in 1..L} = Range(seq)
                  /\ \A i, j \in 1..L : later[i] = later[j] => i = j
                  /\ \A j \in 1..L :
                        later[j] = grow_mark.actor =>
                            grow_mark.new \subseteq {later[i] : i \in 1..(j - 1)}

C17_Witness ==
    /\ grow_mark # <<>> /\ Len(grow_mark.seq) = 3
    /\ Len(picks) = grow_mark.at + 3
    /\ picks[Len(picks)] = grow_mark.actor
    /\ grow_mark.new # {}

C19_RunTickNeverRaises ==
    (SAVE_EVERY >= 1 /\ init_agents # <<>>) =>
        failed_at \notin {"next", "zerodiv", "index"}

\* C20: for every cap that leaves room for the founders, the agents at
\* positions 0 and 1 of the initial list stay there, the sequence keeps its
\* agents in their order of arrival with none twice, and it never empties.
C20_FoundersStay ==
    MAX_AGENTS >= 2 =>
        /\ \A i \in 1..Min(2, Len(init_agents)) :
              Len(agents) >= i /\ agents[i] = init_agents[i]
        /\ \A i, j \in 1..Len(agents) : i < j => agents[i] < agents[j]
        /\ init_agents # <<>> => agents # <<>>

\* C12: once loop is done every other task is done or has had its
\* cancellation requested (it may still be running), the task running loop
\* is never cancelled, and no cancellation is requested before logger.close.
C12_DanglingTasksCancelled ==
    /\ tasks[LoopTask] = "pending"
    /\ pc = "done" =>
          \A t \in DOMAIN tasks \ {LoopTask} : tasks[t] \in {"done", "cancelling"}
    /\ (\E t \in DOMAIN tasks : tasks[t] = "cancelling") =>
          (pc = "done" /\ closed = 1)

C12_Witness ==
    /\ pc = "done" /\ closed = 1
    /\ \E t, u \in DOMAIN tasks : tasks[t] = "cancelling" /\ tasks[u] = "done"

====
